---------------------------- MODULE Spec2Model ----------------------------
(***************************************************************************)
(* pandas_redshift/core.py as a state machine.                             *)
(*                                                                         *)
(* Texts (SQL statements, log lines, window boundaries) are sequences of   *)
(* tokens.  A token is a maximal piece of text the code never looks        *)
(* inside: a keyword, a value interpolated by str.format, one digit, a     *)
(* quote, a line break.  The warehouse connection, the cursor and the      *)
(* object store are the collaborators the module reaches through the       *)
(* globals `connect`, `cursor` and `s3`: every call on them is recorded,   *)
(* and every call may raise.                                               *)
(***************************************************************************)
EXTENDS Integers, Sequences, FiniteSets, TLC

VARIABLES
    pc,            \* position of the running call
    args,          \* the arguments of the call (never assigned by the code)
    globals,       \* aws_1, aws_2, aws_role, aws_token, logging_config['mask_secrets']
    data_frame,    \* local data_frame of pandas_to_redshift
    validated,     \* the value validate_column_names returned (line 359)
    schema_df,     \* local schema_df of pandas_to_redshift
    csv_name,      \* local csv_name of pandas_to_redshift
    conn,          \* calls made on cursor / connect, in order
    db,            \* the warehouse behind the connection
    s3_objects,    \* keys put into the bucket
    out,           \* texts handed to logger.* and print, in order
    trace,         \* stages of pandas_to_redshift entered so far
    err,           \* the exception that left the call, "none" when none
    created,       \* what create_redshift_table did, once it has been called
    fn_in,         \* argument of a function called on its own
    fn_out         \* what that function returned

vars == <<pc, args, globals, data_frame, validated, schema_df, csv_name, conn,
          db, s3_objects, out, trace, err, created, fn_in, fn_out>>

(***************************************************************************)
(* Bounds of the checked instances.                                        *)
(***************************************************************************)
MaxCols == 2        \* columns of an incoming data frame
MaxTsLen == 5       \* tokens of a window boundary text
Today == 40         \* date.today(), as a day number

(***************************************************************************)
(* Sequence helpers.                                                       *)
(***************************************************************************)
Range(s) == {s[i] : i \in DOMAIN s}

SeqsUpTo(S, n) == UNION {[1..k -> S] : k \in 0..n}

NoDup(s) == \A i, j \in DOMAIN s : i # j => s[i] # s[j]


(***************************************************************************)
(* Values.                                                                 *)
(***************************************************************************)
\* A dtype: `name` is dtype.name cut where str.startswith looks ('int64' is
\* <<"int", "64">>); kind and bits say what the tag denotes.
Dtype(name, kind, bits) == [name |-> name, kind |-> kind, bits |-> bits]

int64 == Dtype(<<"int", "64">>, "integer", "64")
int32 == Dtype(<<"int", "32">>, "integer", "32")
uint64 == Dtype(<<"uint", "64">>, "integer", "64")
float64 == Dtype(<<"float", "64">>, "floating", "64")
datetime64 == Dtype(<<"datetime", "64[ns]">>, "datetime", "64")
bool == Dtype(<<"bool">>, "boolean", "")
object == Dtype(<<"object">>, "object", "")
category == Dtype(<<"category">>, "category", "")

Dtypes == {int64, int32, uint64, float64, datetime64, bool, object, category}

\* A column of a data frame: its name, its dtype and where its values come
\* from ("data": the caller's rows; otherwise the scalar every row holds).
Column(name, dtype, fill) == [name |-> name, dtype |-> dtype, fill |-> fill]

\* A data frame: its columns in order, its row count and its index.
Frame(columns, nrows, index_name) ==
    [columns |-> columns, nrows |-> nrows, index_name |-> index_name,
     index_dtype |-> int64]

ColumnNames(df) == [i \in DOMAIN df.columns |-> df.columns[i].name]

\* Python's None for an optional frame, list or collection.
None == [is_none |-> TRUE, value |-> <<>>]
Some(v) == [is_none |-> FALSE, value |-> v]

\* One call on the cursor or the connection.
Call(op, stmt, sql, ok) == [op |-> op, stmt |-> stmt, sql |-> sql, ok |-> ok]

\* One text handed to the logger or to print.
Emit(chan, text) == [chan |-> chan, text |-> text]

(***************************************************************************)
(* mask_aws_credentials                                                    *)
(***************************************************************************)
Stars == "********"

Min(S) == CHOOSE x \in S : \A y \in S : x <= y
Max(S) == CHOOSE x \in S : \A y \in S : x >= y

\* re.sub('(?<=marker)(.*)(?=\')', '*' * 8, s): after each marker, the
\* longest stretch of the line that is still followed by a quote.
RECURSIVE re_sub(_, _)
re_sub(marker, s) ==
    LET at == {i \in DOMAIN s : s[i] = marker} IN
    IF at = {} THEN s
    ELSE LET i == Min(at)
             breaks == {j \in (i + 1)..Len(s) : s[j] = "\n"}
             eol == IF breaks = {} THEN Len(s) + 1 ELSE Min(breaks)
             quotes == {j \in (i + 1)..(eol - 1) : s[j] = "'"}
         IN  IF quotes = {}
             THEN SubSeq(s, 1, i) \o re_sub(marker, SubSeq(s, i + 1, Len(s)))
             ELSE SubSeq(s, 1, i) \o <<Stars>>
                    \o re_sub(marker, SubSeq(s, Max(quotes), Len(s)))

mask_aws_credentials(mask_secrets, s) ==
    IF mask_secrets
    THEN re_sub("secret_access_key '", re_sub("access_key_id '", s))
    ELSE s

(***************************************************************************)
(* get_defaults, invalidate_to_schema                                      *)
(***************************************************************************)
get_defaults(input_type) ==
    CASE input_type = object -> "na"
      [] input_type = int64 -> "0"
      [] input_type = bool -> "False"
      [] input_type = float64 -> "0.0"
      [] OTHER -> "0"

\* raw_df[schema_df.columns]: the columns of raw_df picked by name, in
\* the order of names.
SelectColumns(df, names) ==
    [df EXCEPT !.columns =
        [i \in DOMAIN names |->
            LET k == CHOOSE k \in DOMAIN df.columns : df.columns[k].name = names[i]
            IN  df.columns[k]]]

invalidate_to_schema(raw_df, schema) ==
    IF schema.is_none \/ schema.value.nrows = 0
    THEN raw_df
    ELSE LET sdf == schema.value
             schema_cols == ColumnNames(sdf)
             kept == SelectSeq(raw_df.columns,
                               LAMBDA c : c.name \in Range(schema_cols))
             missing == SelectSeq(sdf.columns,
                                  LAMBDA c : c.name \notin Range(ColumnNames(raw_df)))
             added == [i \in DOMAIN missing |->
                          Column(missing[i].name, missing[i].dtype,
                                 get_defaults(missing[i].dtype))]
         IN  SelectColumns([raw_df EXCEPT !.columns = kept \o added], schema_cols)

(***************************************************************************)
(* validate_column_names                                                   *)
(***************************************************************************)
\* redshift_reserve_words.txt, stripped and lower-cased.
rrwords == {"select", "table"}

lower(x) == CASE x = "B" -> "b" [] x = "Select" -> "select" [] OTHER -> x

\* re.search('\s', x) is not None
has_space(x) == x \in {"c d"}

validate_column_names(df) ==
    LET lowered == [df EXCEPT !.columns =
                       [i \in DOMAIN df.columns |->
                           [df.columns[i] EXCEPT !.name = lower(@)]]]
        there_are_spaces == \E c \in Range(lowered.columns) : has_space(c.name)
        renamed == [lowered EXCEPT !.columns =
                       [i \in DOMAIN lowered.columns |->
                           [lowered.columns[i] EXCEPT !.name = "\"" \o @ \o "\""]]]
    IN  IF \E c \in Range(lowered.columns) : c.name \in rrwords
        THEN [err |-> "ValueError:reserved", df |-> lowered]
        ELSE [err |-> "none",
              df |-> IF there_are_spaces THEN renamed ELSE lowered]

(***************************************************************************)
(* df_to_s3                                                                *)
(***************************************************************************)
\* put_ok: whether put_object returns; otherwise its exception propagates.
df_to_s3(g, df, key, save_local, verbose, put_ok) ==
    LET local == IF save_local /\ verbose
                 THEN <<Emit("log", <<"saved file">> \o key \o <<"in", "cwd">>)>>
                 ELSE <<>>
        done == IF verbose
                THEN <<Emit("log", <<"saved file">> \o key \o <<"in bucket",
                                    g.s3_subdirectory_var>> \o key)>>
                ELSE <<>>
    IN  IF put_ok
        THEN [err |-> "none", put |-> {<<g.s3_subdirectory_var>> \o key},
              out |-> local \o done]
        ELSE [err |-> "StorageError", put |-> {}, out |-> local]

(***************************************************************************)
(* pd_dtype_to_redshift_dtype, get_column_data_types                       *)
(***************************************************************************)
\* str.startswith on a dtype name
startswith(name, prefix) ==
    /\ Len(name) >= Len(prefix)
    /\ SubSeq(name, 1, Len(prefix)) = prefix

pd_dtype_to_redshift_dtype(dtype) ==
    IF startswith(dtype, <<"int", "64">>) THEN "BIGINT"
    ELSE IF startswith(dtype, <<"int">>) THEN "INTEGER"
    ELSE IF startswith(dtype, <<"float">>) THEN "REAL"
    ELSE IF startswith(dtype, <<"datetime">>) THEN "TIMESTAMP"
    ELSE IF dtype = <<"bool">> THEN "BOOLEAN"
    ELSE "VARCHAR(MAX)"

\* `col_name not in json_columns` raises TypeError when json_columns is None;
\* it is evaluated once per column, so never for a frame without columns.
get_column_data_types(df, index, json_columns) ==
    IF json_columns.is_none /\ df.columns # <<>>
    THEN [err |-> "TypeError:json_columns", types |-> <<>>]
    ELSE LET column_data_types ==
                 [i \in DOMAIN df.columns |->
                     IF df.columns[i].name \notin json_columns.value
                     THEN pd_dtype_to_redshift_dtype(df.columns[i].dtype.name)
                     ELSE "SUPER"]
         IN  [err |-> "none",
              types |-> IF index
                        THEN <<pd_dtype_to_redshift_dtype(df.index_dtype.name)>>
                                \o column_data_types
                        ELSE column_data_types]

(***************************************************************************)
(* create_redshift_table                                                   *)
(***************************************************************************)
\* ', '.join('{0} {1}'.format(x, y) for x, y in zip(columns, types))
RECURSIVE join_columns(_, _)
join_columns(columns, types) ==
    IF columns = <<>> \/ types = <<>> THEN <<>>
    ELSE <<Head(columns), Head(types)>>
           \o (IF Tail(columns) = <<>> \/ Tail(types) = <<>> THEN <<>> ELSE <<",">>)
           \o join_columns(Tail(columns), Tail(types))

\* Lines 239-247 without the check of lines 241-242.
distribution_clause_unchecked(diststyle, distkey) ==
    IF distkey = ""
    THEN [err |-> "none", clause |-> <<"diststyle", diststyle>>]
    ELSE [err |-> "none", clause |-> <<"distkey(", distkey, ")">>]

\* Lines 239-247: the distribution clause, or the error of line 242.
distribution_clause(diststyle, distkey) ==
    IF distkey = ""
    THEN IF diststyle \notin {"even", "all"}
         THEN [err |-> "ValueError:diststyle", clause |-> <<>>]
         ELSE [err |-> "none", clause |-> <<"diststyle", diststyle>>]
    ELSE [err |-> "none", clause |-> <<"distkey(", distkey, ")">>]

\* Lines 248-251.
sortkey_clause(sort_interleaved, sortkey) ==
    IF sortkey # ""
    THEN (IF sort_interleaved THEN <<"interleaved">> ELSE <<>>)
            \o <<"sortkey(", sortkey, ")">>
    ELSE <<>>

\* Lines 255-256 without the commit of line 257.
create_calls_without_commit(name, create_table_query, drop_ok, create_ok, commit_ok) ==
    <<Call("execute", "drop", <<"drop table if exists", name, ";">>, drop_ok)>>
      \o (IF drop_ok
          THEN <<Call("execute", "create", create_table_query, create_ok)>>
          ELSE <<>>)

\* Lines 255-257: drop, create, commit; the first call that raises ends them.
create_calls(name, create_table_query, drop_ok, create_ok, commit_ok) ==
    <<Call("execute", "drop", <<"drop table if exists", name, ";">>, drop_ok)>>
      \o (IF drop_ok
          THEN <<Call("execute", "create", create_table_query, create_ok)>>
          ELSE <<>>)
      \o (IF drop_ok /\ create_ok
          THEN <<Call("commit", "", <<>>, commit_ok)>>
          ELSE <<>>)

create_redshift_table(df, name, a, drop_ok, create_ok, commit_ok) ==
    LET columns == (IF a.index
                    THEN <<IF df.index_name # "" THEN df.index_name ELSE "index">>
                    ELSE <<>>) \o ColumnNames(df)
        derived == IF a.column_data_types.is_none
                   THEN get_column_data_types(df, a.index, a.json_columns)
                   ELSE [err |-> "none", types |-> a.column_data_types.value]
        dist == distribution_clause(a.diststyle, a.distkey)
        create_table_query ==
            <<"create table", name, "(">> \o join_columns(columns, derived.types)
              \o <<")">> \o dist.clause
              \o sortkey_clause(a.sort_interleaved, a.sortkey)
        logged == IF a.verbose
                  THEN <<Emit("log", create_table_query),
                         Emit("log", <<"CREATING A TABLE IN REDSHIFT">>)>>
                  ELSE <<>>
    IN  IF derived.err # "none"
        THEN [err |-> derived.err, query |-> <<>>, out |-> <<>>, calls |-> <<>>]
        ELSE IF dist.err # "none"
        THEN [err |-> dist.err, query |-> <<>>, out |-> <<>>, calls |-> <<>>]
        ELSE [err |-> IF ~drop_ok THEN "Error:drop"
                      ELSE IF ~create_ok THEN "Error:create"
                      ELSE IF ~commit_ok THEN "Error:commit"
                      ELSE "none",
              query |-> create_table_query,
              out |-> logged,
              calls |-> create_calls(name, create_table_query,
                                     drop_ok, create_ok, commit_ok)]

(***************************************************************************)
(* s3_to_redshift                                                          *)
(***************************************************************************)
\* Lines 265-280.
authorization(g, rs_iam_role) ==
    IF rs_iam_role # ""
    THEN <<"\n", "iam_role '", rs_iam_role, "'", "\n">>
    ELSE IF g.aws_1 # "" /\ g.aws_2 # ""
    THEN <<"\n", "access_key_id '", g.aws_1, "'", "\n",
           "secret_access_key '", g.aws_2, "'", "\n">>
    ELSE IF g.aws_role # ""
    THEN <<"\n", "iam_role '", g.aws_role, "'", "\n">>
    ELSE <<>>

\* Lines 304-312 without the rollback of line 311.
copy_calls_without_rollback(s3_to_sql, exec_ok, commit_ok, rollback_ok) ==
    <<Call("execute", "copy", s3_to_sql, exec_ok)>>
      \o (IF exec_ok THEN <<Call("commit", "", <<>>, commit_ok)>> ELSE <<>>)

\* Lines 304-312: execute, commit; whichever raises first is caught, reported
\* and answered by a rollback.
copy_calls(s3_to_sql, exec_ok, commit_ok, rollback_ok) ==
    <<Call("execute", "copy", s3_to_sql, exec_ok)>>
      \o (IF exec_ok THEN <<Call("commit", "", <<>>, commit_ok)>> ELSE <<>>)
      \o (IF exec_ok /\ commit_ok THEN <<>>
          ELSE <<Call("rollback", "", <<>>, rollback_ok)>>)

\* The exception caught at line 307.
copy_caught(exec_ok, commit_ok) ==
    IF ~exec_ok THEN "Error:copy"
    ELSE IF ~commit_ok THEN "Error:commit"
    ELSE "none"

\* The exception that leaves s3_to_redshift: the one caught, raised again at
\* line 312, unless the rollback of line 311 raises first.
copy_error(exec_ok, commit_ok, rollback_ok) ==
    IF copy_caught(exec_ok, commit_ok) = "none" THEN "none"
    ELSE IF ~rollback_ok THEN "Error:rollback"
    ELSE copy_caught(exec_ok, commit_ok)

\* Line 294.
copy_sql_logged(s3_to_sql) == <<Emit("log", <<"Copy sql:">> \o s3_to_sql)>>

\* Lines 308-310.
copy_failure_reported(s3_to_sql, e) ==
    <<Emit("print", <<"Error during execution of query">> \o s3_to_sql \o <<":", e>>),
      Emit("log", <<e>>),
      Emit("print", <<"Traceback", e>>)>>

s3_to_redshift(g, name, key, a, exec_ok, commit_ok, rollback_ok) ==
    LET bucket_name == <<"s3://", g.s3_bucket_var, "/", g.s3_subdirectory_var>> \o key
        body == <<"\n", "copy", name, "\n", "from '">> \o bucket_name
                  \o <<"'", "\n", "delimiter '", a.delimiter, "'", "\n",
                       "ignoreheader 1", "\n",
                       "csv quote as '", a.quotechar, "'", "\n",
                       "dateformat '", a.dateformat, "'", "\n",
                       "timeformat '", a.timeformat, "'", "\n">>
                  \o authorization(g, a.rs_iam_role) \o <<"\n">>
                  \o a.parameters \o <<"\n">>
        with_region == IF a.region # ""
                       THEN body \o <<"region '", a.region, "'">>
                       ELSE body
        with_token == IF g.aws_token # ""
                      THEN with_region \o <<"\n", "session_token '", g.aws_token, "'">>
                      ELSE with_region
        s3_to_sql == with_token \o <<";">>
        e == copy_caught(exec_ok, commit_ok)
    IN  [err |-> copy_error(exec_ok, commit_ok, rollback_ok),
         sql |-> s3_to_sql,
         out |-> copy_sql_logged(body)
                   \o (IF a.verbose
                       THEN <<Emit("log", mask_aws_credentials(g.mask_secrets, s3_to_sql)),
                              Emit("log", <<"FILLING THE TABLE IN REDSHIFT">>)>>
                       ELSE <<>>)
                   \o (IF e # "none" THEN copy_failure_reported(s3_to_sql, e) ELSE <<>>),
         calls |-> copy_calls(s3_to_sql, exec_ok, commit_ok, rollback_ok)]

(***************************************************************************)
(* _date_converter                                                         *)
(***************************************************************************)
Digits == {"0", "1", "2", "3", "4", "5", "6", "7", "8", "9"}

DigitValue(d) ==
    CASE d = "0" -> 0 [] d = "1" -> 1 [] d = "2" -> 2 [] d = "3" -> 3
      [] d = "4" -> 4 [] d = "5" -> 5 [] d = "6" -> 6 [] d = "7" -> 7
      [] d = "8" -> 8 [] d = "9" -> 9

\* int(''.join(digits)) for a non-empty run of digits
RECURSIVE int(_)
int(digits) ==
    IF Len(digits) = 1 THEN DigitValue(digits[1])
    ELSE int(SubSeq(digits, 1, Len(digits) - 1)) * 10 + DigitValue(digits[Len(digits)])

\* str.find: the first position of the token, 0 standing for -1.
find(ts, token) ==
    IF token \in Range(ts) THEN Min({i \in DOMAIN ts : ts[i] = token}) ELSE 0

DateLabel(day) == [kind |-> "date", day |-> day, text |-> <<>>]
TextLabel(ts) == [kind |-> "text", day |-> 0, text |-> ts]
NoLabel == [kind |-> "ValueError:int", day |-> 0, text |-> <<>>]

\* _date_converter reading ts[interval_idx:] instead of ts[interval_idx:-1].
_date_converter_whole_tail(ts) ==
    IF "current_date" \in Range(ts)
    THEN LET interval_idx == find(ts, "interval")
             day_idx == find(ts, "day")
             digits == SelectSeq(SubSeq(ts, interval_idx, Len(ts)),
                                 LAMBDA c : c \in Digits)
         IN  IF interval_idx # 0 /\ day_idx # 0
             THEN IF digits = <<>> THEN NoLabel
                  ELSE DateLabel(Today - int(digits))
             ELSE DateLabel(Today)
    ELSE TextLabel(ts)

_date_converter(ts) ==
    IF "current_date" \in Range(ts)
    THEN LET interval_idx == find(ts, "interval")
             day_idx == find(ts, "day")
             \* ts[interval_idx:-1] leaves the last character out
             digits == SelectSeq(SubSeq(ts, interval_idx, Len(ts) - 1),
                                 LAMBDA c : c \in Digits)
         IN  IF interval_idx # 0 /\ day_idx # 0
             THEN IF digits = <<>> THEN NoLabel
                  ELSE DateLabel(Today - int(digits))
             ELSE DateLabel(Today)
    ELSE TextLabel(ts)

\* str.format of what _date_converter returned
Formatted(label) ==
    IF label.kind = "date" THEN <<"date", ToString(label.day)>> ELSE label.text

(***************************************************************************)
(* The warehouse behind `connect` and `cursor`.                            *)
(*   committed: the target table as other sessions see it                  *)
(*   working:   the target table as this session's transaction sees it     *)
(*   txn:       "idle", "open", or "aborted" after a statement that failed *)
(*   columns, rows: the table as it stood before the call                  *)
(* The table is "absent", "old" (as it stood), "appended" (as it stood     *)
(* plus the copied rows), "empty" (newly created) or "loaded" (newly       *)
(* created plus the copied rows).                                          *)
(***************************************************************************)
execute(d, stmt) ==
    CASE stmt = "select" -> [d EXCEPT !.txn = "open"]
      [] stmt = "drop" -> [d EXCEPT !.txn = "open", !.working = "absent"]
      [] stmt = "create" -> [d EXCEPT !.txn = "open", !.working = "empty"]
      [] stmt = "copy" ->
            [d EXCEPT !.txn = "open",
                      !.working = IF @ = "empty" THEN "loaded" ELSE "appended"]

commit(d) ==
    IF d.txn = "aborted"
    THEN [d EXCEPT !.txn = "idle", !.working = d.committed]
    ELSE [d EXCEPT !.txn = "idle", !.committed = d.working]

rollback(d) == [d EXCEPT !.txn = "idle", !.working = d.committed]

\* A call that raises leaves the transaction aborted and changes no table.
apply_call(d, c) ==
    IF ~c.ok THEN [d EXCEPT !.txn = "aborted"]
    ELSE CASE c.op = "execute" -> execute(d, c.stmt)
           [] c.op = "commit" -> commit(d)
           [] c.op = "rollback" -> rollback(d)

RECURSIVE apply_calls(_, _)
apply_calls(d, calls) ==
    IF calls = <<>> THEN d
    ELSE apply_calls(apply_call(d, Head(calls)), Tail(calls))

\* Whether a statement on the target table can succeed at all.
can_succeed(d, stmt) ==
    IF stmt \in {"select", "copy"} THEN d.working # "absent" ELSE TRUE

Outcomes(d, stmt) == IF can_succeed(d, stmt) THEN BOOLEAN ELSE {FALSE}

(***************************************************************************)
(* redshift_to_pandas                                                      *)
(***************************************************************************)
\* pd.DataFrame(cursor.fetchall(), columns=...): without a row every column
\* is of dtype object.
redshift_to_pandas(d, sql_query, ok) ==
    IF ok
    THEN [err |-> "none",
          calls |-> <<Call("execute", "select", sql_query, TRUE)>>,
          data |-> Some(Frame([i \in DOMAIN d.columns |->
                                  IF d.rows = 0
                                  THEN [d.columns[i] EXCEPT !.dtype = object]
                                  ELSE d.columns[i]],
                              d.rows, ""))]
    ELSE [err |-> "Error:select",
          calls |-> <<Call("execute", "select", sql_query, FALSE)>>,
          data |-> None]

(***************************************************************************)
(* pandas_to_redshift, one action per stage.                               *)
(***************************************************************************)
\* The stage a call on the connection belongs to; a rollback is no stage.
stages_of(calls) ==
    LET staged == SelectSeq(calls, LAMBDA c : c.op # "rollback")
    IN  [i \in DOMAIN staged |->
            IF staged[i].op = "execute" THEN staged[i].stmt ELSE staged[i].op]

NotCreated == [called |-> FALSE, err |-> "none", query |-> <<>>]

\* Line 359.
Validate ==
    /\ pc = "validate"
    /\ LET r == validate_column_names(data_frame) IN
        /\ data_frame' = r.df
        /\ validated' = r.df
        /\ err' = r.err
        /\ pc' = IF r.err # "none" THEN "done"
                 ELSE IF args.append THEN "fetch_schema" ELSE "reconcile"
    /\ trace' = Append(trace, "validate")
    /\ UNCHANGED <<args, globals, schema_df, csv_name, conn, db, s3_objects,
                   out, created, fn_in, fn_out>>

\* Lines 361-365.
FetchSchema ==
    /\ pc = "fetch_schema"
    /\ \E ok \in Outcomes(db, "select") :
        LET get_schema_sql == <<"select * from", args.redshift_table_name, "limit 1">>
            r == redshift_to_pandas(db, get_schema_sql, ok)
        IN  /\ schema_df' = r.data
            /\ conn' = conn \o r.calls
            /\ db' = apply_calls(db, r.calls)
            /\ err' = r.err
            /\ pc' = IF r.err # "none" THEN "done" ELSE "reconcile"
    /\ trace' = Append(trace, "fetch")
    /\ UNCHANGED <<args, globals, data_frame, validated, csv_name, s3_objects,
                   out, created, fn_in, fn_out>>

\* Line 367.  The call is made in either mode; without a reference it returns
\* its argument (lines 110-112) and is not counted as a stage.
Reconcile ==
    /\ pc = "reconcile"
    /\ data_frame' = invalidate_to_schema(data_frame, schema_df)
    /\ trace' = IF schema_df.is_none THEN trace ELSE Append(trace, "reconcile")
    /\ pc' = "stage"
    /\ UNCHANGED <<args, globals, validated, schema_df, csv_name, conn, db,
                   s3_objects, out, err, created, fn_in, fn_out>>

\* Lines 377-384: after staging, create the table unless appending.
after_stage_always_creates(append, e) ==
    IF e # "none" THEN "done" ELSE "create_table"

after_stage(append, e) ==
    IF e # "none" THEN "done"
    ELSE IF append THEN "copy" ELSE "create_table"

\* Lines 371-375.
Stage ==
    /\ pc = "stage"
    /\ LET start == _date_converter(args.ts_start)
           end == _date_converter(args.ts_end)
           key == <<args.redshift_table_name, "-">> \o Formatted(start)
                    \o <<"_">> \o Formatted(end) \o <<".csv">>
       IN  IF start = NoLabel \/ end = NoLabel
           THEN /\ err' = "ValueError:int"
                /\ pc' = "done"
                /\ UNCHANGED <<csv_name, s3_objects, out, trace>>
           ELSE \E put_ok \in BOOLEAN :
                  LET r == df_to_s3(globals, data_frame, key, args.save_local,
                                    args.verbose, put_ok)
                  IN  /\ csv_name' = key
                      /\ s3_objects' = s3_objects \cup r.put
                      /\ out' = out \o r.out
                      /\ trace' = Append(trace, "upload")
                      /\ err' = r.err
                      /\ pc' = after_stage(args.append, r.err)
    /\ UNCHANGED <<args, globals, data_frame, validated, schema_df, conn, db,
                   created, fn_in, fn_out>>

\* Lines 378-381: create_redshift_table, whole.
CreateTable ==
    /\ pc = "create_table"
    /\ \E drop_ok, create_ok, commit_ok \in BOOLEAN :
        LET r == create_redshift_table(data_frame, args.redshift_table_name, args,
                                       drop_ok, create_ok, commit_ok)
        IN  /\ conn' = conn \o r.calls
            /\ db' = apply_calls(db, r.calls)
            /\ out' = out \o r.out
            /\ trace' = trace \o stages_of(r.calls)
            /\ created' = [called |-> TRUE, err |-> r.err, query |-> r.query]
            /\ err' = r.err
            /\ pc' = IF r.err # "none" THEN "done" ELSE "copy"
    /\ UNCHANGED <<args, globals, data_frame, validated, schema_df, csv_name,
                   s3_objects, fn_in, fn_out>>

\* Lines 384-385: s3_to_redshift, whole.
Copy ==
    /\ pc = "copy"
    /\ \E exec_ok \in Outcomes(db, "copy"), commit_ok \in BOOLEAN,
          rollback_ok \in BOOLEAN :
        LET r == s3_to_redshift(globals, args.redshift_table_name, csv_name, args,
                                exec_ok, commit_ok, rollback_ok)
        IN  /\ conn' = conn \o r.calls
            /\ db' = apply_calls(db, r.calls)
            /\ out' = out \o r.out
            /\ trace' = trace \o stages_of(r.calls)
            /\ err' = r.err
            /\ pc' = "done"
    /\ UNCHANGED <<args, globals, data_frame, validated, schema_df, csv_name,
                   s3_objects, created, fn_in, fn_out>>

(***************************************************************************)
(* Functions called on their own.                                          *)
(***************************************************************************)
\* get_column_data_types(data_frame, index, json_columns)
DeriveTypes ==
    /\ pc = "types"
    /\ fn_out' = get_column_data_types(fn_in.df, fn_in.index, fn_in.json_columns)
    /\ pc' = "return"
    /\ UNCHANGED <<args, globals, data_frame, validated, schema_df, csv_name,
                   conn, db, s3_objects, out, trace, err, created, fn_in>>

\* _date_converter(ts)
ConvertDate ==
    /\ pc = "date"
    /\ fn_out' = _date_converter(fn_in)
    /\ pc' = "return"
    /\ UNCHANGED <<args, globals, data_frame, validated, schema_df, csv_name,
                   conn, db, s3_objects, out, trace, err, created, fn_in>>

(***************************************************************************)
(* Inputs.                                                                 *)
(***************************************************************************)
Rows == 2           \* rows of an incoming data frame

\* Defaults of pandas_to_redshift (lines 339-356).
DefaultArgs ==
    [redshift_table_name |-> "t", ts_start |-> <<"x">>, ts_end |-> <<"x">>,
     rs_iam_role |-> "", column_data_types |-> None, index |-> FALSE,
     save_local |-> FALSE, delimiter |-> ",", quotechar |-> "\"",
     dateformat |-> "auto", timeformat |-> "auto", region |-> "",
     append |-> FALSE, diststyle |-> "even", distkey |-> "",
     sort_interleaved |-> FALSE, sortkey |-> "", parameters |-> <<>>,
     verbose |-> TRUE, json_columns |-> None]

\* What connect_to_s3 (lines 61-78) and set_log_level (line 39) leave behind.
DefaultGlobals ==
    [s3_bucket_var |-> "bucket", s3_subdirectory_var |-> "sub/",
     aws_1 |-> "AKIAKEY", aws_2 |-> "SECRETKEY", aws_role |-> "",
     aws_token |-> "", mask_secrets |-> TRUE]

ColNames == {"a", "B", "Select", "c d"}

dtype_of(name) ==
    CASE name = "a" -> int64 [] name = "B" -> object [] name = "b" -> object
      [] name = "Select" -> bool [] name = "c d" -> float64 [] OTHER -> float64

FramesOver(names, index_names) ==
    {Frame([i \in DOMAIN ns |-> Column(ns[i], dtype_of(ns[i]), "data")], Rows, ix) :
        ns \in {s \in SeqsUpTo(names, MaxCols) : NoDup(s)}, ix \in index_names}

NoTable == [committed |-> "absent", working |-> "absent", txn |-> "idle",
            columns |-> <<>>, rows |-> 0]

Table(names, rows) ==
    [committed |-> "old", working |-> "old", txn |-> "idle",
     columns |-> [i \in DOMAIN names |-> Column(names[i], dtype_of(names[i]), "data")],
     rows |-> rows]

Relative == <<"current_date", "x", "interval", "1", "day", "x">>
Unreadable == <<"current_date", "interval", "day">>

Windows == {<<(<<"x">>), (<<"x">>)>>, <<Relative, (<<"x">>)>>, <<(<<"x">>), Unreadable>>}

\* Start of a call that runs no pipeline stage.
Quiet ==
    /\ args = DefaultArgs
    /\ globals = DefaultGlobals
    /\ data_frame = Frame(<<>>, 0, "")
    /\ validated = Frame(<<>>, 0, "")
    /\ schema_df = None
    /\ csv_name = <<>>
    /\ conn = <<>>
    /\ db = NoTable
    /\ s3_objects = {}
    /\ out = <<>>
    /\ trace = <<>>
    /\ err = "none"
    /\ created = NotCreated

(***************************************************************************)
(* pandas_to_redshift                                                      *)
(***************************************************************************)
AppendArgs ==
    {[DefaultArgs EXCEPT !.append = TRUE, !.ts_start = w[1], !.ts_end = w[2],
                         !.save_local = sl] :
        w \in Windows, sl \in BOOLEAN}

ReplaceArgs ==
    {[DefaultArgs EXCEPT !.ts_start = w[1], !.ts_end = w[2], !.diststyle = ds,
                         !.json_columns = t[1], !.column_data_types = t[2],
                         !.verbose = vb] :
        w \in Windows, ds \in {"even", "key"}, vb \in BOOLEAN,
        t \in {<<None, None>>, <<Some({}), None>>,
               <<None, Some(<<"VARCHAR(10)", "VARCHAR(10)", "VARCHAR(10)">>)>>}}

Init ==
    /\ pc = "validate"
    /\ \/ /\ args \in AppendArgs
          /\ db \in {NoTable} \cup {Table(ns, r) : ns \in {<<"a">>, <<"b", "a">>, <<"z">>},
                                                   r \in {0, 1}}
       \/ /\ args \in ReplaceArgs
          /\ db \in {NoTable, Table(<<"a">>, 1)}
    /\ globals \in {DefaultGlobals,
                    [DefaultGlobals EXCEPT !.aws_1 = "", !.aws_2 = "",
                                           !.aws_role = "arn:user"]}
    /\ data_frame \in FramesOver(ColNames, {""})
    /\ validated = Frame(<<>>, 0, "")
    /\ schema_df = None
    /\ csv_name = <<>>
    /\ conn = <<>>
    /\ s3_objects = {}
    /\ out = <<>>
    /\ trace = <<>>
    /\ err = "none"
    /\ created = NotCreated
    /\ fn_in = <<>>
    /\ fn_out = <<>>

Next == Validate \/ FetchSchema \/ Reconcile \/ Stage \/ CreateTable \/ Copy

Spec == Init /\ [][Next]_vars

(***************************************************************************)
(* create_redshift_table called on its own                                 *)
(***************************************************************************)
CreateArgs ==
    {[DefaultArgs EXCEPT !.index = ix, !.distkey = dk, !.diststyle = ds,
                         !.sortkey = sk[1], !.sort_interleaved = sk[2],
                         !.json_columns = js, !.column_data_types = cdt,
                         !.verbose = vb] :
        ix \in BOOLEAN, dk \in {"", "a"}, ds \in {"even", "all", "key"},
        sk \in {<<"", FALSE>>, <<"a", FALSE>>, <<"a", TRUE>>},
        js \in {None, Some({}), Some({"a"})},
        cdt \in {None, Some(<<"VARCHAR(10)", "VARCHAR(10)", "VARCHAR(10)">>)},
        vb \in BOOLEAN}

InitCreate ==
    /\ pc = "create_table"
    /\ args \in CreateArgs
    /\ data_frame \in FramesOver({"a", "b"}, IF args.index THEN {"", "id"} ELSE {""})
    /\ validated = data_frame
    /\ db \in {NoTable, Table(<<"a">>, 1)}
    /\ globals = DefaultGlobals
    /\ schema_df = None
    /\ csv_name = <<"t", "-", "x", "_", "x", ".csv">>
    /\ s3_objects = {<<"sub/", "t", "-", "x", "_", "x", ".csv">>}
    /\ conn = <<>>
    /\ out = <<>>
    /\ trace = <<>>
    /\ err = "none"
    /\ created = NotCreated
    /\ fn_in = <<>>
    /\ fn_out = <<>>

NextCreate == CreateTable

SpecCreate == InitCreate /\ [][NextCreate]_vars

(***************************************************************************)
(* s3_to_redshift called on its own                                        *)
(***************************************************************************)
InitCopy ==
    /\ pc = "copy"
    /\ args \in {[DefaultArgs EXCEPT !.rs_iam_role = role, !.region = rg,
                                     !.verbose = vb] :
                    role \in {"", "arn:cluster"}, rg \in {"", "eu-west-1"},
                    vb \in BOOLEAN}
    /\ globals \in {[DefaultGlobals EXCEPT !.aws_1 = k1, !.aws_2 = k2,
                                           !.aws_role = role, !.aws_token = tk,
                                           !.mask_secrets = mk] :
                       k1 \in {"", "AKIAKEY"}, k2 \in {"", "SECRETKEY"},
                       role \in {"", "arn:user"}, tk \in {"", "TOKEN"},
                       mk \in BOOLEAN}
    /\ db \in {NoTable, Table(<<"a">>, 1),
               [Table(<<"a">>, 1) EXCEPT !.committed = "empty", !.working = "empty"]}
    /\ data_frame = Frame(<<>>, 0, "")
    /\ validated = Frame(<<>>, 0, "")
    /\ schema_df = None
    /\ csv_name = <<"t", "-", "x", "_", "x", ".csv">>
    /\ s3_objects = {<<"sub/", "t", "-", "x", "_", "x", ".csv">>}
    /\ conn = <<>>
    /\ out = <<>>
    /\ trace = <<>>
    /\ err = "none"
    /\ created = NotCreated
    /\ fn_in = <<>>
    /\ fn_out = <<>>

NextCopy == Copy

SpecCopy == InitCopy /\ [][NextCopy]_vars

(***************************************************************************)
(* get_column_data_types called on its own                                 *)
(***************************************************************************)
TypedFrames ==
    UNION {{Frame([i \in DOMAIN ns |-> Column(ns[i], ds[i], "data")], Rows, "") :
               ds \in [DOMAIN ns -> Dtypes]} :
           ns \in {s \in SeqsUpTo({"a", "b", "c"}, MaxCols) : NoDup(s)}}

InitTypes ==
    /\ pc = "types"
    /\ fn_in \in [df : TypedFrames, index : BOOLEAN,
                  json_columns : {None} \cup {Some(S) : S \in SUBSET {"a", "b"}}]
    /\ fn_out = <<>>
    /\ Quiet

NextTypes == DeriveTypes

SpecTypes == InitTypes /\ [][NextTypes]_vars

(***************************************************************************)
(* _date_converter called on its own                                       *)
(***************************************************************************)
TsTokens == {"current_date", "interval", "day", "1", "x"}

InitDate ==
    /\ pc = "date"
    /\ fn_in \in SeqsUpTo(TsTokens, MaxTsLen)
    /\ fn_out = <<>>
    /\ Quiet

NextDate == ConvertDate

SpecDate == InitDate /\ [][NextDate]_vars

(***************************************************************************)
(* Properties.                                                             *)
(***************************************************************************)
IsPrefix(s, t) == Len(s) <= Len(t) /\ SubSeq(t, 1, Len(s)) = s

IsExecute(c, stmt) == c.op = "execute" /\ c.stmt = stmt

CopyAt == {i \in DOMAIN conn : IsExecute(conn[i], "copy")}

Rollbacks == Cardinality({i \in DOMAIN conn : conn[i].op = "rollback"})

\* C1 as stated: when execution of the bulk-copy statement fails, rollback is
\* called exactly once, the same error is raised to the caller and no commit
\* is called for the statement; when execution succeeds, commit is called and
\* rollback is not.
C1_RollbackOnlyOnExecuteFailure ==
    pc = "done" =>
        \A i \in CopyAt :
            /\ ~conn[i].ok =>
                  /\ Rollbacks = 1
                  /\ err = "Error:copy"
                  /\ \A j \in DOMAIN conn : j > i => conn[j].op # "commit"
            /\ conn[i].ok =>
                  /\ \E j \in DOMAIN conn : j > i /\ conn[j].op = "commit"
                  /\ Rollbacks = 0

\* C1 as amended: when execution of the bulk-copy statement fails, the only
\* call that follows is one rollback; when execution succeeds, commit is
\* called next, and one rollback follows exactly when that commit raises.  The
\* error raised to the caller is the one of the call that failed, or the
\* rollback's own when the rollback raises.
C1_RollbackOnCopyFailure ==
    pc = "done" =>
        \A i \in CopyAt :
            /\ ~conn[i].ok =>
                  /\ Len(conn) = i + 1
                  /\ conn[i + 1].op = "rollback"
                  /\ Rollbacks = 1
                  /\ err = IF conn[i + 1].ok THEN "Error:copy" ELSE "Error:rollback"
            /\ conn[i].ok =>
                  /\ Len(conn) > i
                  /\ conn[i + 1].op = "commit"
                  /\ conn[i + 1].ok => (Len(conn) = i + 1 /\ Rollbacks = 0 /\ err = "none")
                  /\ ~conn[i + 1].ok =>
                        /\ Len(conn) = i + 2
                        /\ conn[i + 2].op = "rollback"
                        /\ Rollbacks = 1
                        /\ err = IF conn[i + 2].ok THEN "Error:commit"
                                 ELSE "Error:rollback"

\* C1 witness: a finished call whose copy statement failed and was rolled back.
C1_Witness ==
    /\ pc = "done"
    /\ \E i \in CopyAt : ~conn[i].ok
    /\ Rollbacks = 1
    /\ err = "Error:copy"

ExpectedStages(append) ==
    IF append
    THEN <<"validate", "fetch", "reconcile", "upload", "copy", "commit">>
    ELSE <<"validate", "upload", "drop", "create", "commit", "copy", "commit">>

\* C2: every run performs validate, (append: fetch, reconcile), upload,
\* (replace: drop, create, commit), copy, commit in this order, nothing
\* repeated or reordered; an append run executes no drop or create statement
\* and a replace run fetches no reference row (and reshapes nothing).
C2_StageOrder ==
    /\ IsPrefix(trace, ExpectedStages(args.append))
    /\ (pc = "done" /\ err = "none") => trace = ExpectedStages(args.append)
    /\ args.append =>
          \A i \in DOMAIN conn : ~IsExecute(conn[i], "drop") /\ ~IsExecute(conn[i], "create")
    /\ ~args.append =>
          /\ \A i \in DOMAIN conn : ~IsExecute(conn[i], "select")
          /\ schema_df.is_none
          /\ pc \in {"stage", "create_table", "copy"} => data_frame = validated

\* C2 witness: an append run that went through every stage.
C2_Witness ==
    /\ pc = "done"
    /\ err = "none"
    /\ args.append
    /\ trace = <<"validate", "fetch", "reconcile", "upload", "copy", "commit">>

\* C3 as stated: every statement executed on the warehouse is followed
\* immediately by a commit or, when its execution fails, by a rollback before
\* the error reaches the caller.
C3_EveryStatementSettled ==
    \A i \in DOMAIN conn :
        conn[i].op = "execute" =>
            /\ conn[i].ok =>
                  /\ i < Len(conn) => conn[i + 1].op = "commit"
                  /\ pc = "done" => i < Len(conn)
            /\ (~conn[i].ok /\ pc = "done") =>
                  /\ i < Len(conn)
                  /\ conn[i + 1].op = "rollback"

Secrets == {globals.aws_1, globals.aws_2} \ {""}

\* C4 as stated: with masking on, nothing s3_to_redshift logs or prints holds
\* the access-key id or the secret access key, and the statement executed
\* holds the real values.
C4_NoSecretInOutput ==
    /\ globals.mask_secrets => \A i \in DOMAIN out : Range(out[i].text) \cap Secrets = {}
    /\ \A i \in CopyAt :
          (args.rs_iam_role = "" /\ globals.aws_1 # "" /\ globals.aws_2 # "")
              => Secrets \subseteq Range(conn[i].sql)

\* C5 as stated: reconciling against a reference with at least one column,
\* with or without a sampled row, gives the reference's column names in the
\* reference's order and the incoming row count; only an absent or
\* column-less reference leaves the incoming dataset unchanged.
C5_ReferenceShape ==
    pc = "stage" =>
        IF ~schema_df.is_none /\ schema_df.value.columns # <<>>
        THEN /\ ColumnNames(data_frame) = ColumnNames(schema_df.value)
             /\ data_frame.nrows = validated.nrows
        ELSE data_frame = validated

DistributionAt(q) == {i \in DOMAIN q : q[i] \in {"diststyle", "distkey("}}

\* C6 as stated: the statement create_redshift_table builds holds exactly one
\* distribution clause, distkey(col) when a distribution key is given and
\* otherwise diststyle even or all; without a distribution key and with any
\* other diststyle the call fails with the invalid-option error.
C6_OneDistributionClause ==
    created.called =>
        /\ created.query # <<>> =>
              \E i \in DOMAIN created.query :
                  /\ DistributionAt(created.query) = {i}
                  /\ i < Len(created.query)
                  /\ IF args.distkey # ""
                     THEN created.query[i] = "distkey("
                            /\ created.query[i + 1] = args.distkey
                     ELSE created.query[i] = "diststyle"
                            /\ created.query[i + 1] = args.diststyle
                            /\ args.diststyle \in {"even", "all"}
        /\ (args.distkey = "" /\ args.diststyle \notin {"even", "all"})
              => created.err = "ValueError:diststyle"

HasPattern(ts) == "interval" \in Range(ts) /\ "day" \in Range(ts)

\* The first run of digits at or after position i of ts.
FirstDigitRun(ts, i) ==
    LET at == {j \in i..Len(ts) : ts[j] \in Digits} IN
    IF at = {} THEN <<>>
    ELSE LET from == Min(at)
             stops == {j \in from..Len(ts) : ts[j] \notin Digits}
             to == IF stops = {} THEN Len(ts) ELSE Min(stops) - 1
         IN  SubSeq(ts, from, to)

RECURSIVE Power10(_)
Power10(n) == IF n = 0 THEN 1 ELSE 10 * Power10(n - 1)

RECURSIVE Sum(_, _)
Sum(f, S) ==
    IF S = {} THEN 0 ELSE LET x == CHOOSE x \in S : TRUE IN f[x] + Sum(f, S \ {x})

\* The number written by the digits of ts at the positions P.
NumberAt(ts, P) ==
    Sum([p \in P |-> DigitValue(ts[p]) * Power10(Cardinality({q \in P : q > p}))], P)

\* C7 as stated: a text holding both the interval marker and the day token
\* resolves to today minus N days, N the first digit run after the interval
\* marker; any other text is returned unchanged.
C7_FirstDigitRun ==
    pc = "return" =>
        IF HasPattern(fn_in)
        THEN LET run == FirstDigitRun(fn_in, find(fn_in, "interval")) IN
             /\ run # <<>>
             /\ fn_out = DateLabel(Today - NumberAt(run, DOMAIN run))
        ELSE fn_out = TextLabel(fn_in)

\* C7 as amended: a text without 'current_date' is returned unchanged; a text
\* with 'current_date' but without both the interval marker and the day token
\* resolves to today; a text with all three resolves to today minus N days,
\* N the number written by all the digits from the first interval marker up
\* to, and not including, the last character of the text, and the call fails
\* when there is no such digit.
C7_AllDigitsAfterInterval ==
    pc = "return" =>
        IF "current_date" \notin Range(fn_in) THEN fn_out = TextLabel(fn_in)
        ELSE IF ~HasPattern(fn_in) THEN fn_out = DateLabel(Today)
        ELSE LET P == {p \in DOMAIN fn_in :
                          /\ p >= find(fn_in, "interval")
                          /\ p < Len(fn_in)
                          /\ fn_in[p] \in Digits}
             IN  IF P = {} THEN fn_out.kind = "ValueError:int"
                 ELSE fn_out = DateLabel(Today - NumberAt(fn_in, P))

\* C7 witness: a relative boundary with two digit runs resolved to a date.
C7_Witness ==
    /\ pc = "return"
    /\ "current_date" \in Range(fn_in)
    /\ HasPattern(fn_in)
    /\ fn_out.kind = "date"
    /\ fn_out.day = Today - 11

ExpectedType(c, json_columns) ==
    IF ~json_columns.is_none /\ c.name \in json_columns.value THEN "SUPER"
    ELSE CASE c.dtype.kind = "integer" /\ c.dtype.bits = "64" -> "BIGINT"
           [] c.dtype.kind = "integer" /\ c.dtype.bits # "64" -> "INTEGER"
           [] c.dtype.kind = "floating" -> "REAL"
           [] c.dtype.kind = "datetime" -> "TIMESTAMP"
           [] c.dtype.kind = "boolean" -> "BOOLEAN"
           [] OTHER -> "VARCHAR(MAX)"

\* C8 as stated: type derivation never fails, whether or not a
\* structured-columns set is supplied, and gives SUPER for a column in the
\* set, else BIGINT for a 64-bit integer, INTEGER for any other integer, REAL
\* for a float, TIMESTAMP for a datetime, BOOLEAN for a boolean and
\* VARCHAR(MAX) for anything else.
C8_TotalTypeDerivation ==
    pc = "return" =>
        /\ fn_out.err = "none"
        /\ LET shift == IF fn_in.index THEN 1 ELSE 0 IN
           /\ Len(fn_out.types) = Len(fn_in.df.columns) + shift
           /\ \A i \in DOMAIN fn_in.df.columns :
                 fn_out.types[i + shift] = ExpectedType(fn_in.df.columns[i],
                                                        fn_in.json_columns)

\* C9: in replace mode drop and create are committed before the copy
\* statement is executed; when the copy then fails its rollback undoes the
\* copy alone: the run ends with the previous table gone and an empty new
\* table committed, the copy was tried once, and the staged object is kept.
C9_CreateCommittedBeforeCopy ==
    ~args.append =>
        /\ \A i \in CopyAt :
              /\ i = 4
              /\ IsExecute(conn[1], "drop") /\ conn[1].ok
              /\ IsExecute(conn[2], "create") /\ conn[2].ok
              /\ conn[3].op = "commit" /\ conn[3].ok
        /\ (pc = "done" /\ err = "Error:copy") =>
              /\ db.committed = "empty"
              /\ db.working = "empty"
              /\ db.txn = "idle"
              /\ Cardinality(CopyAt) = 1
              /\ conn[Len(conn)].op = "rollback"
              /\ Cardinality({i \in DOMAIN conn : IsExecute(conn[i], "drop")}) = 1
              /\ Cardinality({i \in DOMAIN conn : IsExecute(conn[i], "create")}) = 1
              /\ s3_objects = {<<globals.s3_subdirectory_var>> \o csv_name}

\* C9 witness: a replace run over an existing table whose copy failed.
C9_Witness ==
    /\ ~args.append
    /\ pc = "done"
    /\ err = "Error:copy"
    /\ db.rows = 1
    /\ db.committed = "empty"

\* C10: in replace mode the drop statement is executed only after validation
\* passed, the upload succeeded, the column types were derived and the
\* distribution option was found valid; a run that fails with a reserved-word,
\* upload, type-derivation or invalid-diststyle error has executed no
\* statement and issued no commit, and the existing table is as it was.
C10_DropAfterChecks ==
    ~args.append =>
        /\ err \in {"ValueError:reserved", "StorageError", "TypeError:json_columns",
                    "ValueError:diststyle"} =>
              /\ conn = <<>>
              /\ db.txn = "idle"
              /\ db.committed = IF db.columns = <<>> THEN "absent" ELSE "old"
              /\ db.working = db.committed
        /\ (\E i \in DOMAIN conn : IsExecute(conn[i], "drop")) =>
              /\ SubSeq(trace, 1, 2) = <<"validate", "upload">>
              /\ \A c \in Range(validated.columns) : c.name \notin rrwords
              /\ s3_objects # {}
              /\ created.called /\ created.query # <<>>
              /\ args.column_data_types.is_none =>
                    (~args.json_columns.is_none \/ data_frame.columns = <<>>)
              /\ args.distkey = "" => args.diststyle \in {"even", "all"}

\* C10 witness: a replace run over an existing table stopped by the diststyle
\* check after a successful upload.
C10_Witness ==
    /\ ~args.append
    /\ pc = "done"
    /\ err = "ValueError:diststyle"
    /\ s3_objects # {}
    /\ db.committed = "old"
    /\ conn = <<>>

=============================================================================
